---------------------------- MODULE Spec2Model ----------------------------
(***************************************************************************)
(* A model of the silly-alloc allocators.                                  *)
(*                                                                         *)
(*   Spec       BumpAllocator<M, SingleThreadedHead>, M a borrowed slice   *)
(*              or the WebAssembly memory arena (src/src/bump)             *)
(*   SpecSlice  the same allocator over a slice, with direct calls of the  *)
(*              arena's ensure_min_size                                    *)
(*   SpecExact  the same allocator over an arena that grows to exactly the *)
(*              size asked of ensure_min_size                              *)
(*   SpecTS     BumpAllocator<&[u8], ThreadSafeHead> used by two threads   *)
(*   SpecBucket an allocator generated by #[bucket_allocator]              *)
(*              (src/src/bucket/mod.rs, src/silly-alloc-macros/src/lib.rs) *)
(*   SpecGen    the expansion of #[bucket_allocator] for a declaration,    *)
(*              followed by calls of the generated allocator               *)
(*   SpecInline ArenaBumpAllocator<N> over an inline array                 *)
(*              (src/src/arena_bump.rs)                                    *)
(*                                                                         *)
(* Addresses are natural numbers, the null pointer is 0.                   *)
(***************************************************************************)
EXTENDS Integers, Sequences, FiniteSets

(***************************************************************************)
(* Bounds of the model.                                                    *)
(***************************************************************************)
\* longest slice arena, in bytes
MaxArena == 5
\* largest "small" request size, in bytes
MaxSize == 3
\* successful allocations followed between two resets
MaxAllocs == 3
\* the most pages the host grants to the WebAssembly memory
MaxHostPages == 5
\* calls of alloc made by the threads of the thread-safe allocator, in all
MaxCalls == 3
\* calls followed on a bucket allocator after its warm-up
MaxOps == 2
\* the most recently obtained live pointers a caller may free next (the
\* oldest live pointer may always be freed)
FreeWindow == 2

(***************************************************************************)
(* Program constants.                                                      *)
(***************************************************************************)
PAGE_SIZE == 65536
NUM_SLOTS_PER_SEGMENT == 32
SEGMENT_HEADER_SIZE == 4

Null == 0

\* Layout::align() is a power of two
Aligns == {1, 2, 4}
\* request sizes: small ones for a slice, some of the order of a page for the
\* WebAssembly memory
Sizes == 0 .. MaxSize
WasmSizes == {0, 1, PAGE_SIZE, 2 * PAGE_SIZE + 1}
WasmAligns == {1, 4}
\* addresses a borrowed slice may start at (a slice pointer is never null)
SliceStarts == {1, 2, 4}
\* values of the linker's __heap_base, and the pages the module starts with
HeapBases == {1024, PAGE_SIZE + 4}
InitialPages == {2, 3}

VARIABLES
    arena,      \* the arena M: [kind, start, len] (slice) or [kind, start] (wasm)
    pages,      \* memory_size(N) of the host, in pages (wasm arena only)
    head,       \* the value held by the Head
    allocs,     \* served calls since construction or the last reset: [ptr, size, align, head before]
    last,       \* the last call made and what it returned
    panicked,   \* a call has panicked
    th,         \* per thread: the position inside alloc and its locals
    tsLog,      \* thread-safe allocator: the returned allocations, in head-update order
    decl,       \* the buckets of the generated allocator, in emitted order
    layout,     \* per bucket: is the header stored before the slots
    buckets,    \* per bucket: is_init and the segment headers
    live,       \* bucket allocator: the pointers handed out and not yet freed
    blast,      \* bucket allocator: the last call and its result
    ops,        \* bucket allocator: calls followed so far
    warm,       \* bucket allocator: the warm-up, [size, align, n], n calls made
    gen         \* the macro's input and output: [declared, sort_buckets,
                \* expanded, num_segments]

bumpVars == <<arena, pages, head, allocs, last, panicked>>
tsVars == <<th, tsLog>>
bucketVars == <<decl, layout, buckets, live, blast, ops, warm, gen>>
vars == <<arena, pages, head, allocs, last, panicked, th, tsLog,
          decl, layout, buckets, live, blast, ops, warm, gen>>

(***************************************************************************)
(* Arenas: impl BumpAllocatorArena for &[u8] and for WasmMemoryArena.      *)
(***************************************************************************)
ArenaStart(a) == a.start

\* for an arena of kind "exact", one that grows to min_size and no further,
\* pg is its size in bytes
ArenaSize(a, pg) ==
    IF a.kind = "slice" THEN a.len
    ELSE IF a.kind = "exact" THEN pg
    ELSE pg * PAGE_SIZE - a.start

\* `n as f32`: the nearest value with a 24 bit significand, ties to even
RECURSIVE Ulp(_, _)
Ulp(n, u) == IF n < 16777216 * u THEN u ELSE Ulp(n, 2 * u)

ToF32(n) ==
    LET u == Ulp(n, 1)
        q == n \div u
        r == n % u
    IN  IF 2 * r < u THEN q * u
        ELSE IF 2 * r > u THEN (q + 1) * u
        ELSE IF q % 2 = 0 THEN q * u ELSE (q + 1) * u

\* the number of pages ensure_min_size hands to memory_grow
DeltaPages(a, min_size) ==
    LET f == ToF32(min_size + a.start)
    IN  IF f % PAGE_SIZE # 0 THEN (f \div PAGE_SIZE) + 1 ELSE f \div PAGE_SIZE

\* core::arch::wasm32::memory_grow: the host grows by delta pages or refuses
\* (it must refuse beyond its maximum); granted says which
MemoryGrow(pg, delta, granted) ==
    IF granted /\ pg + delta <= MaxHostPages
    THEN [ok |-> TRUE, pages |-> pg + delta, prior |-> pg]
    ELSE [ok |-> FALSE, pages |-> pg, prior |-> pg]

\* ensure_min_size without the test of memory_grow's result
EnsureMinSizeUnchecked(a, pg, min_size, granted) ==
    IF a.kind = "slice"
    THEN [ok |-> TRUE, pages |-> pg, ret |-> a.len]
    ELSE LET g == MemoryGrow(pg, DeltaPages(a, min_size), granted)
         IN  [ok |-> TRUE, pages |-> g.pages,
              ret |-> g.prior * PAGE_SIZE - a.start]

\* ensure_min_size: [ok, pages after the call, value n of Ok(n)]
EnsureMinSize(a, pg, min_size, granted) ==
    IF a.kind = "slice"
    THEN [ok |-> FALSE, pages |-> pg, ret |-> 0]
    ELSE IF a.kind = "exact"
    THEN LET grown == IF granted /\ min_size > pg THEN min_size ELSE pg
         IN  [ok |-> granted, pages |-> grown, ret |-> grown]
    ELSE LET g == MemoryGrow(pg, DeltaPages(a, min_size), granted)
         IN  [ok |-> g.ok, pages |-> g.pages,
              ret |-> g.prior * PAGE_SIZE - a.start]

\* past_end with None when v >= 0
PastEndOffByOne(a, pg, ptr) ==
    LET v == (a.start + ArenaSize(a, pg)) - ptr
    IN  IF v >= 0 THEN [some |-> FALSE, bytes |-> 0]
        ELSE [some |-> TRUE, bytes |-> -v]

\* past_end that takes the arena's last byte to lie past the end
PastEndAtLastByte(a, pg, ptr) ==
    LET v == (a.start + ArenaSize(a, pg)) - ptr
    IN  IF v > 1 THEN [some |-> FALSE, bytes |-> 0]
        ELSE [some |-> TRUE, bytes |-> 1 - v]

\* past_end: [some, bytes]; v = (start + size) - ptr, None when v > 0
PastEnd(a, pg, ptr) ==
    LET v == (a.start + ArenaSize(a, pg)) - ptr
    IN  IF v > 0 THEN [some |-> FALSE, bytes |-> 0]
        ELSE [some |-> TRUE, bytes |-> -v]

(***************************************************************************)
(* BumpAllocator.                                                          *)
(***************************************************************************)
\* no call of ensure_min_size was made
NoGrow == [called |-> FALSE, min |-> 0, ok |-> FALSE, ret |-> 0]

\* the remainder of addr instead of the distance to the next multiple
AlignOffsetRemainder(addr, align) == addr % align

\* <*const u8>::align_offset(align): the bytes to add to addr to reach a
\* multiple of align
AlignOffset(addr, align) == (align - (addr % align)) % align

\* the arena's start taken for the head pointer
GetHeadPtrAtStart(a, h) == a.start

\* get_head_ptr
GetHeadPtr(a, h) == a.start + h

\* the value reset() stores in the head
ResetValue(a) == ArenaStart(a)

\* the last byte, with the padding left out
LastByteNoPadding(a, h, offset, size) == a.start + (h + size - 1)

\* the last byte of the new allocation, as alloc computes it
LastByteOfNewAllocation(a, h, offset, size) == a.start + (h + offset + size - 1)

\* a bump by the size alone, and one by the padding alone
BumpAmountNoPadding(offset, size) == size

BumpAmountOffsetOnly(offset, size) == offset

\* the argument of head.bump
BumpAmount(offset, size) == offset + size

\* alloc, from a head value h: [panic, ptr, head, pages, grow]; grow records
\* the call of ensure_min_size, if one was made
\* h + offset + size - 1 underflows when the sum is 0: a debug build panics on
\* the subtraction, a release build wraps to usize::MAX, which try_into::<isize>
\* rejects, and the unwrap panics.
AllocResult(a, pg, h, size, align, granted) ==
    LET ptr == GetHeadPtr(a, h)
        offset == AlignOffset(ptr, align)
    IN  IF h + offset + size = 0
        THEN [panic |-> TRUE, ptr |-> Null, head |-> h, pages |-> pg,
              grow |-> NoGrow]
        ELSE
        LET lastByte == LastByteOfNewAllocation(a, h, offset, size)
            pe == PastEnd(a, pg, lastByte)
            min_size == ArenaSize(a, pg) + pe.bytes
            grown == EnsureMinSize(a, pg, min_size, granted)
            grow == IF pe.some
                    THEN [called |-> TRUE, min |-> min_size, ok |-> grown.ok,
                          ret |-> grown.ret]
                    ELSE NoGrow
        IN  IF pe.some /\ ~grown.ok
            THEN [panic |-> FALSE, ptr |-> Null, head |-> h, pages |-> pg,
                  grow |-> grow]
            ELSE [panic |-> FALSE, ptr |-> ptr + offset,
                  head |-> h + BumpAmount(offset, size),
                  pages |-> IF pe.some THEN grown.pages ELSE pg,
                  grow |-> grow]

NoCall == [op |-> "none", size |-> 0, align |-> 1, ptr |-> Null,
           headBefore |-> 0, pagesBefore |-> 0, grow |-> NoGrow]

\* the arena of the tests of bump/mod.rs: [0u8; 1024], here at a multiple of 4
TestArena == [kind |-> "slice", start |-> 4, len |-> 1024]

Arenas ==
    [kind : {"slice"}, start : SliceStarts, len : 0 .. MaxArena]
    \cup {TestArena}
    \cup [kind : {"wasm"}, start : HeapBases]

\* the (size, align) requests made of an allocator over arena a
Requests(a) ==
    IF a.kind = "wasm" THEN WasmSizes \X WasmAligns ELSE Sizes \X Aligns

\* the answers the host may give to a memory_grow
Grants(a) == IF a.kind \in {"wasm", "exact"} THEN BOOLEAN ELSE {FALSE}

Threads == {1, 2}

Idle == [pc |-> "idle", size |-> 0, align |-> 1, ptr |-> Null, offset |-> 0,
         calls |-> 0]

NoThreads == [t \in Threads |-> Idle]

BucketsIdle ==
    /\ decl = <<>>
    /\ layout = <<>>
    /\ buckets = <<>>
    /\ live = {}
    /\ blast = NoCall
    /\ ops = 0
    /\ warm = <<>>
    /\ gen = <<>>

Init ==
    /\ arena \in Arenas
    /\ pages \in (IF arena.kind = "wasm" THEN InitialPages ELSE {0})
    /\ head = 0
    /\ allocs = <<>>
    /\ last = NoCall
    /\ panicked = FALSE
    /\ th = NoThreads
    /\ tsLog = <<>>
    /\ BucketsIdle

Alloc(size, align, granted) ==
    /\ ~panicked
    /\ Len(allocs) < MaxAllocs
    /\ LET r == AllocResult(arena, pages, head, size, align, granted)
       IN  /\ panicked' = r.panic
           /\ head' = r.head
           /\ pages' = r.pages
           /\ allocs' = IF r.ptr # Null
                        THEN Append(allocs, [ptr |-> r.ptr, size |-> size,
                                             align |-> align, head |-> head])
                        ELSE allocs
           /\ last' = [op |-> IF r.panic THEN "panic" ELSE "alloc",
                       size |-> size, align |-> align, ptr |-> r.ptr,
                       headBefore |-> head, pagesBefore |-> pages,
                       grow |-> r.grow]
    /\ UNCHANGED <<arena, th, tsLog, bucketVars>>

\* a dealloc that gives the arena back
DeallocReclaims ==
    /\ ~panicked
    /\ head' = 0
    /\ last' = [op |-> "dealloc", size |-> 0, align |-> 1, ptr |-> Null,
                headBefore |-> head, pagesBefore |-> pages, grow |-> NoGrow]
    /\ UNCHANGED <<arena, pages, allocs, panicked, th, tsLog, bucketVars>>

\* dealloc(ptr, layout) has an empty body
Dealloc ==
    /\ ~panicked
    /\ last' = [op |-> "dealloc", size |-> 0, align |-> 1, ptr |-> Null,
                headBefore |-> head, pagesBefore |-> pages, grow |-> NoGrow]
    /\ UNCHANGED <<arena, pages, head, allocs, panicked, th, tsLog, bucketVars>>

Reset ==
    /\ ~panicked
    /\ head' = ResetValue(arena)
    /\ allocs' = <<>>
    /\ last' = [op |-> "reset", size |-> 0, align |-> 1, ptr |-> Null,
                headBefore |-> head, pagesBefore |-> pages, grow |-> NoGrow]
    /\ UNCHANGED <<arena, pages, panicked, th, tsLog, bucketVars>>

Next ==
    \/ \E rq \in Requests(arena), granted \in Grants(arena) :
          Alloc(rq[1], rq[2], granted)
    \/ Dealloc
    \/ Reset

Spec == Init /\ [][Next]_vars

(***************************************************************************)
(* A BumpAllocator over a borrowed slice whose owner also calls the        *)
(* arena's ensure_min_size itself: the slice is Copy, and the trait method *)
(* is public.                                                              *)
(***************************************************************************)
InitSlice ==
    /\ Init
    /\ arena \in [kind : {"slice"}, start : {1, 4}, len : 0 .. MaxArena]

\* the values of min_size tried: the arena's size and one byte more
MinSizes(a, pg) == {ArenaSize(a, pg), ArenaSize(a, pg) + 1}

\* a call of arena.ensure_min_size(min_size)
EnsureMinSizeCall(min_size, granted) ==
    /\ ~panicked
    /\ LET g == EnsureMinSize(arena, pages, min_size, granted)
       IN  /\ pages' = g.pages
           /\ last' = [op |-> "grow", size |-> 0, align |-> 1, ptr |-> Null,
                       headBefore |-> head, pagesBefore |-> pages,
                       grow |-> [called |-> TRUE, min |-> min_size,
                                 ok |-> g.ok, ret |-> g.ret]]
    /\ UNCHANGED <<arena, head, allocs, panicked, th, tsLog, bucketVars>>

NextSlice ==
    \/ \E rq \in Requests(arena), granted \in Grants(arena) :
          Alloc(rq[1], rq[2], granted)
    \/ Dealloc
    \/ Reset
    \/ \E min_size \in MinSizes(arena, pages), granted \in Grants(arena) :
          EnsureMinSizeCall(min_size, granted)

SpecSlice == InitSlice /\ [][NextSlice]_vars

(***************************************************************************)
(* A BumpAllocator over an arena that implements BumpAllocatorArena to the *)
(* letter: ensure_min_size(min_size) makes size() at least min_size, and   *)
(* exactly min_size when it has to grow; or it fails.                      *)
(***************************************************************************)
InitExact ==
    /\ arena \in [kind : {"exact"}, start : {1, 4}]
    /\ pages \in {0, MaxArena}
    /\ head = 0
    /\ allocs = <<>>
    /\ last = NoCall
    /\ panicked = FALSE
    /\ th = NoThreads
    /\ tsLog = <<>>
    /\ BucketsIdle

SpecExact == InitExact /\ [][Next]_vars

(***************************************************************************)
(* BumpAllocator<&[u8], ThreadSafeHead> shared by two threads.  alloc      *)
(* touches the atomic head three times: the load in get_head_ptr, the load *)
(* in the computation of the last byte, and the fetch_add of bump.  Each   *)
(* is one step; the steps of the two threads interleave.                   *)
(***************************************************************************)
InitTS ==
    /\ arena \in [kind : {"slice"}, start : {1, 4}, len : 0 .. MaxArena]
    /\ pages = 0
    /\ head = 0
    /\ allocs = <<>>
    /\ last = NoCall
    /\ panicked = FALSE
    /\ th = NoThreads
    /\ tsLog = <<>>
    /\ BucketsIdle

\* the requests the threads make: GlobalAlloc::alloc is called with a size of
\* at least one byte
TSRequests == (1 .. MaxSize) \X {1, 2}

\* a thread whose call has returned
Returned(l) == [Idle EXCEPT !.calls = l.calls]

CallsMade == th[1].calls + th[2].calls

\* let ptr = self.get_head_ptr(); let offset = ptr.align_offset(align)
TSGetHeadPtr(t, size, align) ==
    /\ ~panicked
    /\ th[t].pc = "idle"
    /\ CallsMade < MaxCalls
    /\ LET ptr == GetHeadPtr(arena, head)
       IN  th' = [th EXCEPT ![t] =
                    [pc |-> "got", size |-> size, align |-> align,
                     ptr |-> ptr, offset |-> AlignOffset(ptr, align),
                     calls |-> @.calls + 1]]
    /\ UNCHANGED <<arena, pages, head, allocs, last, panicked, tsLog, bucketVars>>

\* head.num_bytes_used() + offset + size - 1, past_end and ensure_min_size
TSCheck(t) ==
    /\ ~panicked
    /\ th[t].pc = "got"
    /\ IF head + th[t].offset + th[t].size = 0
       THEN /\ panicked' = TRUE
            /\ th' = [th EXCEPT ![t] = Returned(@)]
       ELSE LET lastByte == LastByteOfNewAllocation(
                                arena, head, th[t].offset, th[t].size)
                pe == PastEnd(arena, pages, lastByte)
                grown == EnsureMinSize(
                             arena, pages, ArenaSize(arena, pages) + pe.bytes,
                             FALSE)
            IN  /\ panicked' = FALSE
                /\ th' = [th EXCEPT ![t] =
                            IF pe.some /\ ~grown.ok
                            THEN Returned(@)
                            ELSE [@ EXCEPT !.pc = "fits"]]
    /\ UNCHANGED <<arena, pages, head, allocs, last, tsLog, bucketVars>>

\* head.bump(offset + size) done as a load followed by a store of the loaded
\* value plus inc, the load being the one of get_head_ptr
TSBumpLoadStore(t) ==
    /\ ~panicked
    /\ th[t].pc = "fits"
    /\ head' = (th[t].ptr - arena.start) + BumpAmount(th[t].offset, th[t].size)
    /\ tsLog' = Append(tsLog, [ptr |-> th[t].ptr + th[t].offset,
                               size |-> th[t].size, thread |-> t,
                               inc |-> BumpAmount(th[t].offset, th[t].size)])
    /\ th' = [th EXCEPT ![t] = Returned(@)]
    /\ UNCHANGED <<arena, pages, allocs, last, panicked, bucketVars>>

\* head.bump(offset + size), a fetch_add, and the return of ptr + offset
TSBump(t) ==
    /\ ~panicked
    /\ th[t].pc = "fits"
    /\ head' = head + BumpAmount(th[t].offset, th[t].size)
    /\ tsLog' = Append(tsLog, [ptr |-> th[t].ptr + th[t].offset,
                               size |-> th[t].size, thread |-> t,
                               inc |-> BumpAmount(th[t].offset, th[t].size)])
    /\ th' = [th EXCEPT ![t] = Returned(@)]
    /\ UNCHANGED <<arena, pages, allocs, last, panicked, bucketVars>>

NextTS ==
    \/ \E t \in Threads, rq \in TSRequests :
          TSGetHeadPtr(t, rq[1], rq[2])
    \/ \E t \in Threads : TSCheck(t)
    \/ \E t \in Threads : TSBump(t)

SpecTS == InitTS /\ [][NextTS]_vars

(***************************************************************************)
(* Properties of the single-threaded bump allocator (Spec).                *)
(***************************************************************************)
Disjoint(x, y) == x.ptr + x.size <= y.ptr \/ y.ptr + y.size <= x.ptr

\* the padding alloc adds in front of the last request
LastPadding == AlignOffset(arena.start + last.headBefore, last.align)

\* the last call was an alloc that returned an address
Served == last.op = "alloc" /\ last.ptr # Null

\* C1 (bump exclusion): with no reset in between, the byte ranges
\* [p, p + size) of the successful allocations are pairwise disjoint.
C1_BumpExclusion ==
    \A i, j \in 1 .. Len(allocs) : i < j => Disjoint(allocs[i], allocs[j])

\* three allocations of at least one byte each have been made
C1_Witness ==
    /\ Len(allocs) = 3
    /\ \A i \in 1 .. 3 : allocs[i].size >= 1

\* C2 (bump alignment): a non-null address returned by alloc is a multiple of
\* the requested alignment, whatever the head and the arena's start.
C2_BumpAlignment == Served => last.ptr % last.align = 0

\* an address returned for align 4 from an unaligned head pointer
C2_Witness ==
    /\ Served
    /\ last.align = 4
    /\ (arena.start + last.headBefore) % 4 # 0

\* C3 as stated: every non-null address returned by alloc, for every request
\* size including 0, lies in [start, start + size()).
C3_ContainmentAnySize ==
    Served =>
        /\ arena.start <= last.ptr
        /\ last.ptr < arena.start + ArenaSize(arena, pages)

\* C3 (bump containment), amended: an address returned for a request of at
\* least one byte lies in [start, start + size()), and so does the last byte
\* of the allocation; an address returned for a request of 0 bytes lies in
\* [start, start + size()], the end of the arena included.
C3_Containment ==
    Served =>
        /\ arena.start <= last.ptr
        /\ last.ptr + last.size <= arena.start + ArenaSize(arena, pages)

\* an allocation of at least one byte that ends on the arena's last byte
C3_Witness ==
    /\ Served
    /\ last.size >= 1
    /\ last.ptr + last.size = arena.start + ArenaSize(arena, pages)

\* C4 as stated: two consecutive successful allocations p1 (of size1), p2 with
\* no reset in between have p2 >= p1 + size1 and p2 > p1.
C4_MonotonicityAnySize ==
    \A i \in 1 .. Len(allocs) - 1 :
        /\ allocs[i + 1].ptr >= allocs[i].ptr + allocs[i].size
        /\ allocs[i + 1].ptr > allocs[i].ptr

\* C4 (bump monotonicity), amended: p2 >= p1 + size1, and p2 > p1 when
\* size1 >= 1.
C4_Monotonicity ==
    \A i \in 1 .. Len(allocs) - 1 :
        /\ allocs[i + 1].ptr >= allocs[i].ptr + allocs[i].size
        /\ allocs[i].size >= 1 => allocs[i + 1].ptr > allocs[i].ptr

\* an allocation of at least one byte followed by an aligned one
C4_Witness ==
    /\ Len(allocs) >= 2
    /\ allocs[1].size >= 1
    /\ allocs[2].ptr > allocs[1].ptr + allocs[1].size

\* C5 (bump exhaustion, slice arena): alloc(size, align) with size >= 1 returns
\* null exactly when head + padding + size > arena.size(), and a call that
\* returns null leaves the head unchanged.
C5_Exhaustion ==
    (arena.kind = "slice" /\ last.op = "alloc" /\ last.size >= 1) =>
        /\ last.ptr = Null <=>
               last.headBefore + LastPadding + last.size > arena.len
        /\ last.ptr = Null => head = last.headBefore

\* a request that did not fit behind earlier allocations of a slice
C5_Witness ==
    /\ arena.kind = "slice"
    /\ last.op = "alloc"
    /\ last.size >= 1
    /\ last.size <= arena.len
    /\ last.ptr = Null
    /\ Len(allocs) >= 1

\* C6 (bump reset): after reset() the head is 0.
C6_ResetToZero == last.op = "reset" => head = 0

\* C7 (head invariant): 0 <= head.num_bytes_used() <= arena.size() after any
\* sequence of alloc, dealloc and reset.
C7_HeadInvariant == 0 <= head /\ head <= ArenaSize(arena, pages)

\* the request's last byte lies beyond the arena as it was before the call
BeyondArena ==
    last.headBefore + LastPadding + last.size
        > ArenaSize(arena, last.pagesBefore)

\* C9 (host-memory growth): on the WebAssembly arena a request whose last byte
\* lies beyond the current arena either makes the page count strictly
\* increase and returns a non-null address, or returns null with the page
\* count and the head unchanged.
C9_Growth ==
    (arena.kind = "wasm" /\ last.op = "alloc" /\ BeyondArena) =>
        \/ last.ptr # Null /\ pages > last.pagesBefore
        \/ last.ptr = Null /\ pages = last.pagesBefore
                           /\ head = last.headBefore

\* a request beyond the arena that made the memory grow and was served
C9_Witness ==
    /\ arena.kind = "wasm"
    /\ last.op = "alloc"
    /\ BeyondArena
    /\ last.ptr # Null
    /\ pages > last.pagesBefore

(***************************************************************************)
(* Properties of the thread-safe bump allocator (SpecTS).                  *)
(***************************************************************************)
\* C8 (thread-safe exclusion): the allocations of the threads are linearised
\* by the atomic head: in the order of the head updates every returned range
\* ends at or before the start of the ranges returned later, so no two
\* overlap.
C8_Linearised ==
    \A i, j \in 1 .. Len(tsLog) :
        i < j => tsLog[i].ptr + tsLog[i].size <= tsLog[j].ptr


(***************************************************************************)
(* Bucket allocator: geometry of a bucket.                                 *)
(*                                                                         *)
(* A bucket descriptor is [slot_size, num_slots, align]; the header of a   *)
(* segment, a u32, is the set of the positions (0 = least significant) of  *)
(* its set bits.  Segment is a struct with the default representation, so  *)
(* the compiler chooses which of header and slots comes first; hf says     *)
(* whether the header does.                                                *)
(***************************************************************************)
None == -1

\* the largest alignment a slot type exists for (SlotWithAlign512)
MaxSlotAlign == 512

RoundUp(n, a) == ((n + a - 1) \div a) * a

Max(a, b) == IF a >= b THEN a ELSE b

\* num_segments: ceil(num_slots as f32 / 32.0)
NumSegments(d) ==
    LET f == ToF32(d.num_slots)
    IN  IF f % NUM_SLOTS_PER_SEGMENT # 0
        THEN (f \div NUM_SLOTS_PER_SEGMENT) + 1
        ELSE f \div NUM_SLOTS_PER_SEGMENT

\* the size of a slot without the padding to its alignment
SlotStrideUnpadded(d) == d.slot_size

\* size_of::<SlotWithAlignA<S>>(): [u8; S] padded to the alignment
SlotStride(d) == RoundUp(d.slot_size, d.align)

\* align_of::<Segment<S>>()
SegmentAlign(d) == Max(SEGMENT_HEADER_SIZE, d.align)

\* offset of the field slots inside Segment
SlotsOffset(d, hf) == IF hf THEN RoundUp(SEGMENT_HEADER_SIZE, d.align) ELSE 0

\* size_of::<Segment<S>>()
SegmentStride(d, hf) ==
    IF hf
    THEN RoundUp(SlotsOffset(d, hf) + NUM_SLOTS_PER_SEGMENT * SlotStride(d),
                 SegmentAlign(d))
    ELSE RoundUp(RoundUp(NUM_SLOTS_PER_SEGMENT * SlotStride(d),
                         SEGMENT_HEADER_SIZE) + SEGMENT_HEADER_SIZE,
                 SegmentAlign(d))

\* size_of::<BucketImpl<S, N>>(): the segments and the flag is_init
BucketImplSize(d, hf) ==
    RoundUp(NumSegments(d) * SegmentStride(d, hf) + 1, SegmentAlign(d))

\* the allocator value lies at a multiple of the largest slot alignment
AllocatorBase == 2 * MaxSlotAlign

\* self.segments.as_ptr() of bucket i: the fields of the generated struct
\* follow one another, each at a multiple of its alignment
RECURSIVE SegmentsStart(_, _, _)
SegmentsStart(ds, hfs, i) ==
    IF i = 1 THEN AllocatorBase
    ELSE RoundUp(SegmentsStart(ds, hfs, i - 1)
                    + BucketImplSize(ds[i - 1], hfs[i - 1]),
                 SegmentAlign(ds[i]))

(***************************************************************************)
(* SegmentHeader.                                                          *)
(***************************************************************************)
Bits == 0 .. (NUM_SLOTS_PER_SEGMENT - 1)

\* u32::leading_ones
LeadingOnes(h) ==
    IF Bits \subseteq h THEN NUM_SLOTS_PER_SEGMENT
    ELSE CHOOSE n \in Bits :
            /\ (31 - n) \notin h
            /\ \A m \in 0 .. (n - 1) : (31 - m) \in h

\* first_free_slot_idx that looks for the least significant clear bit
FirstFreeSlotIdxFromLow(h) ==
    IF Bits \subseteq h THEN None
    ELSE 31 - (CHOOSE n \in Bits :
                  /\ n \notin h
                  /\ \A m \in 0 .. (n - 1) : m \in h)

\* first_free_slot_idx
FirstFreeSlotIdx(h) ==
    LET clo == LeadingOnes(h)
    IN  IF clo = 32 THEN None ELSE clo

\* SegmentHeader::set_slot and unset_slot (slot_idx < 32, so arr_idx = 0)
HeaderSetSlot(h, slot_idx) == h \cup {31 - (slot_idx % 32)}

HeaderUnsetSlot(h, slot_idx) == h \ {31 - (slot_idx % 32)}


(***************************************************************************)
(* BucketImpl: [is_init, headers], headers[s + 1] the header of segment s. *)
(* start is self.segments.as_ptr().                                        *)
(***************************************************************************)
\* BucketImpl::new(): the segments are not initialised
NewBucket == [is_init |-> FALSE, headers |-> <<>>]

\* ensure_init without the flag: the segments are zeroed at every call
EnsureInitAlways(d, b) ==
    [is_init |-> TRUE, headers |-> [s \in 1 .. NumSegments(d) |-> {}]]

\* ensure_init left out: the bucket stays as new() made it
EnsureInitNever(d, b) == b

\* ensure_init: zero the whole array of segments on the first call
EnsureInit(d, b) ==
    IF b.is_init THEN b
    ELSE [is_init |-> TRUE, headers |-> [s \in 1 .. NumSegments(d) |-> {}]]

\* get_segments and get_segments_mut: assert!(self.is_init), TRUE when the
\* assertion passes
GetSegmentsMut(b) == b.is_init

\* global_to_local
GlobalToLocal(slot_idx) ==
    [seg_idx |-> slot_idx \div NUM_SLOTS_PER_SEGMENT,
     slot_idx |-> slot_idx % NUM_SLOTS_PER_SEGMENT]

\* get_slot: the address of the slot with the global index slot_idx
GetSlot(d, hf, start, slot_idx) ==
    LET l == GlobalToLocal(slot_idx)
    IN  start + l.seg_idx * SegmentStride(d, hf) + SlotsOffset(d, hf)
              + l.slot_idx * SlotStride(d)

\* claim_first_available_slot with the segments scanned from the last one
ClaimFromLastSegment(d, hf, start, b) ==
    LET free == {s \in 1 .. Len(b.headers) :
                    FirstFreeSlotIdx(b.headers[s]) # None}
    IN  IF free = {} THEN [ptr |-> Null, bucket |-> b]
        ELSE LET s == CHOOSE x \in free : \A y \in free : x >= y
                 slot_idx == FirstFreeSlotIdx(b.headers[s])
             IN  [ptr |-> GetSlot(d, hf, start,
                                  (s - 1) * NUM_SLOTS_PER_SEGMENT + slot_idx),
                  bucket |-> [b EXCEPT !.headers[s] =
                                          HeaderSetSlot(@, slot_idx)]]

\* claim_first_available_slot: [ptr, bucket], ptr = Null for None
ClaimFirstAvailableSlot(d, hf, start, b) ==
    LET free == {s \in 1 .. Len(b.headers) :
                    FirstFreeSlotIdx(b.headers[s]) # None}
    IN  IF free = {} THEN [ptr |-> Null, bucket |-> b]
        ELSE LET s == CHOOSE x \in free : \A y \in free : x <= y
                 slot_idx == FirstFreeSlotIdx(b.headers[s])
             IN  [ptr |-> GetSlot(d, hf, start,
                                  (s - 1) * NUM_SLOTS_PER_SEGMENT + slot_idx),
                  bucket |-> [b EXCEPT !.headers[s] =
                                          HeaderSetSlot(@, slot_idx)]]

\* slot_idx_for_ptr: the global slot index computed for ptr, or None
SlotIdxForPtr(d, hf, start, ptr) ==
    LET seg_stride == SegmentStride(d, hf)
        slot_stride == SlotStride(d)
        offset == ptr - start
        seg_idx == offset \div seg_stride
        slot_idx == (offset % seg_stride) \div slot_stride
    IN  IF offset < 0 THEN None
        ELSE IF seg_idx >= NumSegments(d) \/ slot_idx > NUM_SLOTS_PER_SEGMENT
             THEN None
             ELSE seg_idx * NUM_SLOTS_PER_SEGMENT + slot_idx

\* slot_idx_for_ptr of bucket.rs: the first slot, in index order, whose
\* address is ptr, or None
SlotIdxForPtrLinear(d, hf, start, ptr) ==
    LET found == {g \in 0 .. (NumSegments(d) * NUM_SLOTS_PER_SEGMENT - 1) :
                     GetSlot(d, hf, start, g) = ptr}
    IN  IF found = {} THEN None
        ELSE CHOOSE g \in found : \A x \in found : g <= x

\* unset_slot: [panic, bucket]; indexing the segments out of bounds panics
UnsetSlot(b, slot_idx) ==
    LET l == GlobalToLocal(slot_idx)
    IN  IF l.seg_idx >= Len(b.headers) THEN [panic |-> TRUE, bucket |-> b]
        ELSE [panic |-> FALSE,
              bucket |-> [b EXCEPT !.headers[l.seg_idx + 1] =
                                      HeaderUnsetSlot(@, l.slot_idx)]]

(***************************************************************************)
(* The GlobalAlloc implementation written by #[bucket_allocator]: ds are   *)
(* the buckets in emitted order, hfs their layouts, bs their states.       *)
(***************************************************************************)
\* the test of a selector with the alignment left out, and with the size
\* left out
SelectsBySize(d, size, align) == size <= d.slot_size

SelectsByAlign(d, size, align) == align <= d.align

\* the test a bucket's selector makes of a request
Selects(d, size, align) == size <= d.slot_size /\ align <= d.align

\* alloc, from the selector of bucket i on: [ptr, idx, buckets, assert], idx
\* the bucket that served, assert set when claim_first_available_slot was
\* called and the assertion of get_segments_mut failed
RECURSIVE AllocFrom(_, _, _, _, _, _)
AllocFrom(ds, hfs, bs, i, size, align) ==
    IF i > Len(ds)
    THEN [ptr |-> Null, idx |-> 0, buckets |-> bs, assert |-> FALSE]
    ELSE LET b == EnsureInit(ds[i], bs[i])
             c == ClaimFirstAvailableSlot(ds[i], hfs[i],
                                          SegmentsStart(ds, hfs, i), b)
         IN  IF Selects(ds[i], size, align) /\ ~GetSegmentsMut(b)
             THEN [ptr |-> Null, idx |-> 0,
                   buckets |-> [bs EXCEPT ![i] = b], assert |-> TRUE]
             ELSE IF Selects(ds[i], size, align) /\ c.ptr # Null
             THEN [ptr |-> c.ptr, idx |-> i,
                   buckets |-> [bs EXCEPT ![i] = c.bucket], assert |-> FALSE]
             ELSE AllocFrom(ds, hfs, [bs EXCEPT ![i] = b], i + 1, size, align)

\* dealloc, from the selector of bucket i on: [panic, buckets, assert], assert
\* set when unset_slot was called and the assertion of get_segments_mut failed
RECURSIVE DeallocFrom(_, _, _, _, _)
DeallocFrom(ds, hfs, bs, i, ptr) ==
    IF i > Len(ds) THEN [panic |-> FALSE, buckets |-> bs, assert |-> FALSE]
    ELSE LET b == EnsureInit(ds[i], bs[i])
             g == SlotIdxForPtr(ds[i], hfs[i], SegmentsStart(ds, hfs, i),
                                ptr)
             u == UnsetSlot(b, g)
         IN  IF g = None
             THEN DeallocFrom(ds, hfs, [bs EXCEPT ![i] = b], i + 1, ptr)
             ELSE IF ~GetSegmentsMut(b)
                  THEN [panic |-> TRUE, buckets |-> [bs EXCEPT ![i] = b],
                        assert |-> TRUE]
             ELSE IF u.panic
                  THEN [panic |-> TRUE, buckets |-> [bs EXCEPT ![i] = b],
                        assert |-> FALSE]
                  ELSE DeallocFrom(ds, hfs, [bs EXCEPT ![i] = u.bucket],
                                   i + 1, ptr)


(***************************************************************************)
(* The expansion of #[bucket_allocator]: the declared fields are sorted if *)
(* the option sort_buckets says so, and emitted in the resulting order.    *)
(***************************************************************************)
\* a comparison by align alone
LessByAlign(a, b) == a.align < b.align

\* the comparison of sort_by: by slot_size, then by align
Less(a, b) ==
    \/ a.slot_size < b.slot_size
    \/ a.slot_size = b.slot_size /\ a.align < b.align

\* x put into the sorted sequence q, after the elements not greater than it
\* (sort_by is stable)
InsertSorted(q, x) ==
    LET greater == {k \in 1 .. Len(q) : Less(x, q[k])}
        at == IF greater = {} THEN Len(q) + 1
              ELSE CHOOSE k \in greater : \A l \in greater : k <= l
    IN  SubSeq(q, 1, at - 1) \o <<x>> \o SubSeq(q, at, Len(q))

\* buckets.sort_by(...)
RECURSIVE SortBuckets(_)
SortBuckets(ds) ==
    IF ds = <<>> THEN <<>>
    ELSE InsertSorted(SortBuckets(SubSeq(ds, 1, Len(ds) - 1)), ds[Len(ds)])

\* the buckets in the order in which the macro emits fields and selectors
Emitted(declared, sort_buckets) ==
    IF sort_buckets THEN SortBuckets(declared) ELSE declared

\* the const generic NUM_SEGMENTS of each emitted field
EmittedSegments(ds) == [i \in 1 .. Len(ds) |-> NumSegments(ds[i])]

(***************************************************************************)
(* A generated bucket allocator in use.                                    *)
(***************************************************************************)
\* bucket/mod.rs, mod test: MyBucketAllocator
MyBucketAllocator ==
    << [slot_size |-> 2, num_slots |-> 32, align |-> 2],
       [slot_size |-> 4, num_slots |-> 32, align |-> 4],
       [slot_size |-> 8, num_slots |-> 32, align |-> 8] >>

\* bucket/mod.rs, test unsorted_buckets
UnsortedBuckets ==
    << [slot_size |-> 8, num_slots |-> 32, align |-> 8],
       [slot_size |-> 2, num_slots |-> 32, align |-> 8] >>

\* one bucket of two segments, the second one partly used
TwoSegments == << [slot_size |-> 1, num_slots |-> 33, align |-> 1] >>

\* a small bucket that overflows into a bucket of two segments
TwoSegmentOverflow ==
    << [slot_size |-> 2, num_slots |-> 32, align |-> 2],
       [slot_size |-> 4, num_slots |-> 64, align |-> 4] >>

Configs == {MyBucketAllocator, UnsortedBuckets, TwoSegments, TwoSegmentOverflow}

\* the layouts (size, align) asked of a bucket allocator
BucketRequests ==
    {<<1, 1>>, <<2, 2>>, <<2, 8>>, <<4, 1>>, <<4, 4>>, <<8, 8>>, <<9, 1>>,
     <<2, 32>>}

\* the calls made before the calls the model follows: n equal allocations
\* for some n of WarmCounts
WarmRequests == {<<1, 1>>, <<4, 4>>}
WarmCounts == {0, 3, 31, 32, 33, 64}

Range(q) == {q[k] : k \in 1 .. Len(q)}

\* the addresses that are live: handed out and not freed since
LivePtrs == {e.ptr : e \in Range(live)}

NoBucketCall == [op |-> "none", size |-> 0, align |-> 1, ptr |-> Null,
                 wasLive |-> FALSE, before |-> <<>>]

BumpIdle ==
    /\ arena = [kind |-> "slice", start |-> 1, len |-> 0]
    /\ pages = 0
    /\ head = 0
    /\ allocs = <<>>
    /\ last = NoCall
    /\ panicked = FALSE
    /\ th = NoThreads
    /\ tsLog = <<>>

\* the allocator after new(), in one of the layouts the compiler may choose
InitBucket ==
    /\ BumpIdle
    /\ decl \in Configs
    /\ layout \in [1 .. Len(decl) -> BOOLEAN]
    /\ buckets = [i \in 1 .. Len(decl) |-> NewBucket]
    /\ live = <<>>
    /\ blast = NoBucketCall
    /\ ops = 0
    /\ warm \in {[size |-> rq[1], align |-> rq[2], n |-> 0] :
                    rq \in WarmRequests}
    /\ gen = [declared |-> decl, sort_buckets |-> FALSE, expanded |-> TRUE,
              num_segments |-> EmittedSegments(decl)]

\* the live pointers a caller frees next
FreeCandidates ==
    {live[k].ptr : k \in {k \in 1 .. Len(live) :
                             k = 1 \/ k > Len(live) - FreeWindow}}

\* GlobalAlloc::alloc of the generated allocator
AllocCall(size, align) ==
    LET r == AllocFrom(decl, layout, buckets, 1, size, align)
    IN  /\ buckets' = r.buckets
        /\ live' = IF r.ptr = Null \/ r.ptr \in LivePtrs THEN live
                   ELSE Append(live, [ptr |-> r.ptr, bucket |-> r.idx])
        /\ blast' = [op |-> IF r.assert THEN "assert" ELSE "alloc",
                     size |-> size, align |-> align,
                     ptr |-> r.ptr, wasLive |-> r.ptr \in LivePtrs,
                     before |-> buckets]

\* a call of the warm-up
BucketWarmUp ==
    /\ blast.op # "assert"
    /\ ops = 0
    /\ \E c \in WarmCounts : warm.n < c
    /\ AllocCall(warm.size, warm.align)
    /\ warm' = [warm EXCEPT !.n = @ + 1]
    /\ UNCHANGED <<bumpVars, tsVars, decl, layout, ops, gen>>

\* the calls after the warm-up
Followed ==
    /\ blast.op \notin {"panic", "assert"}
    /\ ops < MaxOps
    /\ warm.n \in WarmCounts
    /\ ops' = ops + 1

BucketAlloc(size, align) ==
    /\ Followed
    /\ AllocCall(size, align)
    /\ UNCHANGED <<bumpVars, tsVars, decl, layout, warm, gen>>

\* GlobalAlloc::dealloc of the generated allocator, of a live pointer
BucketDealloc(ptr) ==
    /\ Followed
    /\ LET r == DeallocFrom(decl, layout, buckets, 1, ptr)
       IN  /\ buckets' = r.buckets
           /\ blast' = [op |-> IF r.assert THEN "assert"
                               ELSE IF r.panic THEN "panic" ELSE "dealloc",
                        size |-> 0, align |-> 1, ptr |-> ptr,
                        wasLive |-> TRUE, before |-> buckets]
    /\ live' = SelectSeq(live, LAMBDA e : e.ptr # ptr)
    /\ UNCHANGED <<bumpVars, tsVars, decl, layout, warm, gen>>

NextBucket ==
    \/ BucketWarmUp
    \/ \E rq \in BucketRequests : BucketAlloc(rq[1], rq[2])
    \/ \E ptr \in FreeCandidates : BucketDealloc(ptr)

SpecBucket == InitBucket /\ [][NextBucket]_vars

(***************************************************************************)
(* The macro applied to a declaration, and the allocator it generates in   *)
(* use (SpecGen).                                                          *)
(***************************************************************************)
\* test::MyBucketAllocator declared from the largest bucket to the smallest
ReversedBuckets ==
    << [slot_size |-> 8, num_slots |-> 32, align |-> 8],
       [slot_size |-> 4, num_slots |-> 32, align |-> 4],
       [slot_size |-> 2, num_slots |-> 32, align |-> 2] >>

\* buckets of equal slot size that differ in their alignment
EqualSizes ==
    << [slot_size |-> 4, num_slots |-> 32, align |-> 8],
       [slot_size |-> 4, num_slots |-> 32, align |-> 2],
       [slot_size |-> 2, num_slots |-> 32, align |-> 4] >>

\* values of NumSlots<K>: around the multiples of 32, and around 2^24, the
\* first values that usize -> f32 does not keep
SlotCounts ==
    {0, 1, 31, 32, 33, 64, 65, 16777215, 16777216, 16777217, 16777219}

Declarations ==
    {MyBucketAllocator, UnsortedBuckets, ReversedBuckets, EqualSizes}
    \cup {<< [slot_size |-> 1, num_slots |-> K, align |-> 1] >> :
             K \in SlotCounts}

\* the attribute and the struct it is applied to, parsed
InitGen ==
    /\ BumpIdle
    /\ gen \in [declared : Declarations, sort_buckets : BOOLEAN,
                 expanded : {FALSE}, num_segments : {<<>>}]
    /\ decl = <<>>
    /\ layout = <<>>
    /\ buckets = <<>>
    /\ live = <<>>
    /\ blast = NoBucketCall
    /\ ops = 0
    /\ warm = [size |-> 1, align |-> 1, n |-> 0]

\* bucket_allocator: the expansion, and new() of the generated struct
Expand ==
    /\ ~gen.expanded
    /\ decl' = Emitted(gen.declared, gen.sort_buckets)
    /\ gen' = [gen EXCEPT !.expanded = TRUE,
                          !.num_segments = EmittedSegments(decl')]
    /\ layout' \in [1 .. Len(gen.declared) -> BOOLEAN]
    /\ buckets' = [i \in 1 .. Len(gen.declared) |-> NewBucket]
    /\ UNCHANGED <<bumpVars, tsVars, live, blast, ops, warm>>

\* the calls are followed for buckets of at most two segments
Runnable ==
    /\ gen.expanded
    /\ \A i \in 1 .. Len(decl) : gen.num_segments[i] <= 2

GenAlloc(size, align) == Runnable /\ BucketAlloc(size, align)

GenDealloc(ptr) == Runnable /\ BucketDealloc(ptr)

NextGen ==
    \/ Expand
    \/ \E rq \in BucketRequests : GenAlloc(rq[1], rq[2])
    \/ \E ptr \in FreeCandidates : GenDealloc(ptr)

SpecGen == InitGen /\ [][NextGen]_vars

(***************************************************************************)
(* Properties of the generated bucket allocator (SpecBucket).              *)
(***************************************************************************)
\* the bytes of the slot a live pointer was handed out for
SlotRange(e) == [ptr |-> e.ptr, size |-> decl[e.bucket].slot_size]

\* C10 (bucket exclusion): alloc never returns an address that is still
\* live, and the slots of the live allocations are distinct byte ranges that
\* do not overlap.
C10_BucketExclusion ==
    /\ (blast.op = "alloc" /\ blast.ptr # Null) => ~blast.wasLive
    /\ \A k, l \in 1 .. Len(live) :
          k < l => Disjoint(SlotRange(live[k]), SlotRange(live[l]))

\* the global slot indices of bucket i, and the address of its slot g
SlotsOf(i) == 0 .. (NumSegments(decl[i]) * NUM_SLOTS_PER_SEGMENT - 1)

SlotAddr(i, g) ==
    GetSlot(decl[i], layout[i], SegmentsStart(decl, layout, i), g)

\* the header bit of the slot with the global index g of bucket i is set
BitSet(i, g) ==
    /\ buckets[i].is_init
    /\ (31 - (g % NUM_SLOTS_PER_SEGMENT))
          \in buckets[i].headers[(g \div NUM_SLOTS_PER_SEGMENT) + 1]

\* C11 (bucket header invariant): in every bucket the header bit of slot i of
\* segment s is set if and only if the address of slot (s, i) is live, that
\* is, allocated to a caller.
C11_HeaderInvariant ==
    \A i \in 1 .. Len(decl) : \A g \in SlotsOf(i) :
        BitSet(i, g) <=> SlotAddr(i, g) \in LivePtrs

\* bucket i had a clear header bit when the last call began (a bucket not yet
\* initialised is zeroed by the call before it is looked at)
HadFreeSlot(i) ==
    IF blast.before[i].is_init
    THEN \E s \in 1 .. Len(blast.before[i].headers) :
            blast.before[i].headers[s] # Bits
    ELSE NumSegments(decl[i]) > 0

\* the header bit of slot g of bucket i was set when the last call began
WasSet(i, g) ==
    /\ blast.before[i].is_init
    /\ (31 - (g % NUM_SLOTS_PER_SEGMENT))
          \in blast.before[i].headers[(g \div NUM_SLOTS_PER_SEGMENT) + 1]

\* the buckets that satisfy the last request and had a free slot
Candidates ==
    {i \in 1 .. Len(decl) :
        /\ blast.size <= decl[i].slot_size
        /\ blast.align <= decl[i].align
        /\ HadFreeSlot(i)}

C13_BucketAlignment ==
    (blast.op = "alloc" /\ blast.ptr # Null) => blast.ptr % blast.align = 0

\* an address returned for an alignment of 8 by a bucket whose slots are
\* narrower than 8 bytes
C13_Witness ==
    /\ blast.op = "alloc"
    /\ blast.ptr # Null
    /\ blast.align = 8
    /\ \E e \in Range(live) :
          e.ptr = blast.ptr /\ decl[e.bucket].slot_size < 8

\* the last call freed the pointer of slot g of bucket i, no slot before g in
\* bucket i has a clear bit, and no bucket before i that passes the selector
\* test for (size, align) has a clear bit: a request (size, align) that passes
\* the test of bucket i is of the size class of the freed slot
ReusePending(i, g, size, align) ==
    /\ blast.op = "dealloc"
    /\ blast.ptr = SlotAddr(i, g)
    /\ Selects(decl[i], size, align)
    /\ \A k \in 0 .. (g - 1) : BitSet(i, k)
    /\ \A j \in 1 .. (i - 1) :
          Selects(decl[j], size, align) => \A k \in SlotsOf(j) : BitSet(j, k)

\* C14 (slot reuse): after dealloc(p), if no free slot precedes p's slot in
\* scan order, the next allocation of the same size class returns exactly p.
C14_SlotReuse ==
    [][\A i \in 1 .. Len(decl) : \A g \in SlotsOf(i) :
          (ReusePending(i, g, blast'.size, blast'.align) /\ blast'.op = "alloc")
              => blast'.ptr = blast.ptr]_vars

\* all the header bits of bucket i are set in bs (a bucket not yet
\* initialised is zeroed before it is looked at)
Full(bs, i) ==
    /\ bs[i].is_init
    /\ \A s \in 1 .. Len(bs[i].headers) : bs[i].headers[s] = Bits

\* the buckets whose selector test the request (size, align) passes
Fitting(size, align) ==
    {i \in 1 .. Len(decl) : Selects(decl[i], size, align)}

\* the request (size, align) overflows in bs: a bucket fits it and the first
\* bucket that fits it is full
Overflows(bs, size, align) ==
    /\ Fitting(size, align) # {}
    /\ LET f == CHOOSE x \in Fitting(size, align) :
                   \A y \in Fitting(size, align) : x <= y
       IN  NumSegments(decl[f]) > 0 /\ Full(bs, f)

\* the buckets that fit (size, align) and have a clear bit in bs
Open(bs, size, align) ==
    {i \in Fitting(size, align) : NumSegments(decl[i]) > 0 /\ ~Full(bs, i)}

\* the first slot of bucket i, in scan order, whose bit is clear in bs
FirstClear(bs, i) ==
    IF ~bs[i].is_init THEN 0
    ELSE CHOOSE g \in SlotsOf(i) :
            /\ (31 - (g % 32)) \notin bs[i].headers[(g \div 32) + 1]
            /\ \A k \in 0 .. (g - 1) :
                  (31 - (k % 32)) \in bs[i].headers[(k \div 32) + 1]

\* the bucket that serves the overflowing request (size, align) in bs
NextOpen(bs, size, align) ==
    CHOOSE x \in Open(bs, size, align) :
        \A y \in Open(bs, size, align) : x <= y

\* C15 as stated: two consecutive equal requests that overflow the first
\* fitting bucket and are served by the same later bucket receive addresses
\* one slot stride apart.
C15_CascadeOneStrideApart ==
    [][(/\ blast.op = "alloc" /\ blast'.op = "alloc"
        /\ blast.ptr # Null /\ blast'.ptr # Null
        /\ blast'.size = blast.size /\ blast'.align = blast.align
        /\ Overflows(blast.before, blast.size, blast.align)
        /\ Overflows(buckets, blast.size, blast.align)
        /\ NextOpen(buckets, blast.size, blast.align)
              = NextOpen(blast.before, blast.size, blast.align))
       => blast'.ptr = blast.ptr
             + SlotStride(decl[NextOpen(buckets, blast.size, blast.align)])]_vars


\* C15 (bucket overflow cascade), amended: when every slot of the first
\* fitting bucket is occupied, a further fitting request is served from the
\* first free slot, in scan order, of the next bucket in order that fits and
\* has a free slot, and null is returned if there is no such bucket; when the
\* slot served directly follows, inside one segment, the slot the call before
\* returned, the two addresses are one slot stride apart.
C15_Cascade ==
    [][(blast'.op = "alloc" /\ Overflows(buckets, blast'.size, blast'.align))
       => IF Open(buckets, blast'.size, blast'.align) = {}
          THEN blast'.ptr = Null
          ELSE LET j == NextOpen(buckets, blast'.size, blast'.align)
                   g == FirstClear(buckets, j)
               IN  /\ blast'.ptr = SlotAddr(j, g)
                   /\ (/\ blast.op = "alloc"
                       /\ g % NUM_SLOTS_PER_SEGMENT # 0
                       /\ blast.ptr = SlotAddr(j, g - 1))
                      => blast'.ptr = blast.ptr + SlotStride(decl[j])]_vars

\* a request that overflowed a full first bucket and was served by the slot
\* after a live slot of a later bucket
C15_Witness ==
    /\ blast.op = "alloc"
    /\ blast.ptr # Null
    /\ Overflows(blast.before, blast.size, blast.align)
    /\ \E j \in 2 .. Len(decl) : \E g \in SlotsOf(j) :
          /\ g >= 1
          /\ blast.ptr = SlotAddr(j, g)
          /\ SlotAddr(j, g - 1) \in LivePtrs


\* the last call returned the address of a slot of bucket i
ServedBy(i) == \E g \in SlotsOf(i) : blast.ptr = SlotAddr(i, g)

\* C16 (alignment dispatch): a request is served by the first bucket with
\* A >= align and S >= size that has a free slot, also when its size fits an
\* earlier bucket of smaller A; a request whose align exceeds the A of every
\* bucket returns null and no header bit changes.
C16_AlignmentDispatch ==
    blast.op = "alloc" =>
        /\ (\A i \in 1 .. Len(decl) : blast.align > decl[i].align)
              => /\ blast.ptr = Null
                 /\ \A i \in 1 .. Len(decl) : \A g \in SlotsOf(i) :
                       BitSet(i, g) <=> WasSet(i, g)
        /\ blast.ptr # Null
              => \E i \in 1 .. Len(decl) :
                    /\ ServedBy(i)
                    /\ decl[i].align >= blast.align
                    /\ \A j \in 1 .. (i - 1) :
                          (/\ decl[j].align >= blast.align
                           /\ decl[j].slot_size >= blast.size)
                          => ~HadFreeSlot(j)

\* allocate(2, 8) on the buckets with A = 2, 4, 8 lands in the third, the
\* first two having free slots wide enough
C16_Witness ==
    /\ decl = MyBucketAllocator
    /\ blast.op = "alloc"
    /\ blast.size = 2
    /\ blast.align = 8
    /\ ServedBy(3)
    /\ HadFreeSlot(1)
    /\ HadFreeSlot(2)


\* C17 (no abort at runtime): alloc on the BumpAllocator and on a generated
\* bucket allocator, for every size >= 0 and every power-of-two align, and
\* dealloc of a pointer returned before, never panic.
C17_NoPanic == ~panicked /\ last.op # "panic" /\ blast.op # "panic"


\* C18 (bump dealloc is a no-op): dealloc leaves the head and the arena size
\* unchanged, so an alloc that follows returns the address it would have
\* returned without the dealloc.
C18_DeallocNoOp ==
    [][/\ last'.op = "dealloc"
          => /\ head' = head
             /\ ArenaSize(arena', pages') = ArenaSize(arena, pages)
       /\ (last.op = "dealloc" /\ last'.op = "alloc")
          => \E granted \in Grants(arena) :
                last'.ptr = AllocResult(arena, last.pagesBefore,
                                        last.headBefore, last'.size,
                                        last'.align, granted).ptr]_vars

\* a dealloc made while allocations are outstanding
C18_Witness ==
    /\ last.op = "dealloc"
    /\ Len(allocs) >= 1
    /\ last.headBefore > 0


\* C19 (bump allocation step): a successful alloc(size, align) returns
\* start + head + padding, padding the least non-negative number that makes
\* the address a multiple of align, and advances the head by exactly
\* padding + size.
C19_AllocStep ==
    Served =>
        \E padding \in 0 .. (last.align - 1) :
            /\ (arena.start + last.headBefore + padding) % last.align = 0
            /\ \A q \in 0 .. (padding - 1) :
                  (arena.start + last.headBefore + q) % last.align # 0
            /\ last.ptr = arena.start + last.headBefore + padding
            /\ head = last.headBefore + padding + last.size

\* two alloc(3, 4) in a row on an arena that starts at a multiple of 4: the
\* addresses are exactly 4 bytes apart
C19_Witness ==
    /\ Len(allocs) >= 2
    /\ allocs[1].size = 3
    /\ allocs[2].size = 3
    /\ allocs[1].ptr % 4 = 0
    /\ allocs[2].ptr = allocs[1].ptr + 4


\* the k-th call served since construction was alloc(size, align)
ServedCall(k, size, align) ==
    /\ Len(allocs) >= k
    /\ allocs[k].size = size
    /\ allocs[k].align = align

\* the last call was alloc(size, align), made after k served calls, and it
\* returned null
Refused(k, size, align) ==
    /\ Len(allocs) = k
    /\ last.op = "alloc"
    /\ last.size = size
    /\ last.align = align
    /\ last.ptr = Null

\* the allocator is fresh when its first call is served: no reset ran before
FreshStart == Len(allocs) >= 1 => allocs[1].head = 0

\* C20 as stated: on a fresh 1024-byte arena whose start is a multiple of 4,
\* allocate(3, 4) returns offset 0, then allocate(3, 4) returns offset 4,
\* then allocate(1, 1) returns offset 8.
C20_ScenarioOffset8 ==
    (arena = TestArena /\ FreshStart) =>
        /\ ~(head = 0 /\ Refused(0, 3, 4))
        /\ ServedCall(1, 3, 4) =>
              /\ allocs[1].ptr = arena.start
              /\ ~Refused(1, 3, 4)
        /\ (ServedCall(1, 3, 4) /\ ServedCall(2, 3, 4)) =>
              /\ allocs[2].ptr = arena.start + 4
              /\ ~Refused(2, 1, 1)
        /\ (ServedCall(1, 3, 4) /\ ServedCall(2, 3, 4) /\ ServedCall(3, 1, 1))
              => allocs[3].ptr = arena.start + 8

\* C20 (sequential bump scenario), amended: on a fresh 1024-byte arena whose
\* start is a multiple of 4, allocate(3, 4) returns offset 0, then
\* allocate(3, 4) returns offset 4, then allocate(1, 1) returns offset 7, the
\* byte after the second allocation; none of the three returns null.
C20_Scenario ==
    (arena = TestArena /\ FreshStart) =>
        /\ ~(head = 0 /\ Refused(0, 3, 4))
        /\ ServedCall(1, 3, 4) =>
              /\ allocs[1].ptr = arena.start
              /\ ~Refused(1, 3, 4)
        /\ (ServedCall(1, 3, 4) /\ ServedCall(2, 3, 4)) =>
              /\ allocs[2].ptr = arena.start + 4
              /\ ~Refused(2, 1, 1)
        /\ (ServedCall(1, 3, 4) /\ ServedCall(2, 3, 4) /\ ServedCall(3, 1, 1))
              => allocs[3].ptr = arena.start + 7

\* the three calls of the scenario have been served
C20_Witness ==
    /\ arena = TestArena
    /\ FreshStart
    /\ ServedCall(1, 3, 4)
    /\ ServedCall(2, 3, 4)
    /\ ServedCall(3, 1, 1)


\* C21 (boundary use): an alloc whose last byte is the last byte of the arena
\* (head + padding + size = size()) is served without a call of
\* ensure_min_size; on a 4-byte arena at a multiple of 4, allocate(3, 4)
\* returns offset 0 and allocate(1, 1) then returns offset 3.
C21_BoundaryUse ==
    /\ (/\ last.op = "alloc"
        /\ last.headBefore + LastPadding + last.size
              = ArenaSize(arena, last.pagesBefore))
       => /\ last.ptr = arena.start + last.headBefore + LastPadding
          /\ ~last.grow.called
          /\ pages = last.pagesBefore
    /\ (arena.kind = "slice" /\ arena.len = 4 /\ arena.start % 4 = 0
          /\ FreshStart)
       => /\ ~(head = 0 /\ Refused(0, 3, 4))
          /\ ServedCall(1, 3, 4) =>
                /\ allocs[1].ptr = arena.start
                /\ ~Refused(1, 1, 1)
          /\ (ServedCall(1, 3, 4) /\ ServedCall(2, 1, 1))
                => allocs[2].ptr = arena.start + 3

\* tests::use_last_byte: the second call took the last byte of the arena
C21_Witness ==
    /\ arena.kind = "slice" /\ arena.len = 4 /\ arena.start % 4 = 0
    /\ FreshStart
    /\ ServedCall(1, 3, 4)
    /\ ServedCall(2, 1, 1)
    /\ Len(allocs) = 2
    /\ last.op = "alloc"
    /\ last.ptr = arena.start + 3
    /\ last.headBefore + LastPadding + last.size = ArenaSize(arena, pages)



\* C22 (zero-size bump request): alloc(0, align) does not panic, in a fresh
\* allocator with head = 0 and an aligned start either; when it is served it
\* returns the head pointer rounded up to align and leaves the head at that
\* position or one byte after it.
C22_ZeroSize ==
    (last.op \in {"alloc", "panic"} /\ last.size = 0) =>
        /\ last.op = "alloc"
        /\ last.ptr # Null =>
              /\ last.ptr = arena.start + last.headBefore + LastPadding
              /\ head \in {last.headBefore + LastPadding,
                           last.headBefore + LastPadding + 1}



PagesFor(n) == (n + PAGE_SIZE - 1) \div PAGE_SIZE

\* C24 (growth unit): the page count of the host memory never decreases, and
\* when the arena grows to cover a request that is delta bytes short of
\* size(), the memory grows by exactly ceil(delta / 65536) pages.
C24_GrowthUnit ==
    [][/\ pages' >= pages
       /\ (arena.kind = "wasm" /\ pages' # pages) =>
             /\ last'.grow.called
             /\ pages' - pages
                   = PagesFor(last'.grow.min - ArenaSize(arena, pages))]_vars



\* C25 (non-growable arena): on the borrowed-slice arena ensure_min_size(min)
\* fails for every min, min <= size() included, and start() and size() are
\* the same before and after every alloc, dealloc and failed growth.
C25_NonGrowable ==
    [][/\ last'.grow.called => ~last'.grow.ok
       /\ ArenaStart(arena') = ArenaStart(arena)
       /\ ArenaSize(arena', pages') = ArenaSize(arena, pages)]_vars

\* ensure_min_size was called with a min_size the arena already has, after an
\* allocation
C25_Witness ==
    /\ last.op = "grow"
    /\ last.grow.min <= ArenaSize(arena, pages)
    /\ ~last.grow.ok
    /\ Len(allocs) >= 1
    /\ arena.len >= 1



\* C26 (pointer-to-index round trip): for every bucket and every global slot
\* index g of it, slot_idx_for_ptr(get_slot(g)) = Some(g), wherever the
\* header lies inside the segment, and the linear search of bucket.rs finds
\* the same index.
C26_RoundTrip ==
    \A i \in 1 .. Len(decl) : \A g \in SlotsOf(i) :
        /\ SlotIdxForPtr(decl[i], layout[i], SegmentsStart(decl, layout, i),
                         SlotAddr(i, g)) = g
        /\ SlotIdxForPtrLinear(decl[i], layout[i],
                               SegmentsStart(decl, layout, i),
                               SlotAddr(i, g)) = g



\* the addresses from just below the segments of bucket i to just above them
PtrsNear(i) ==
    LET start == SegmentsStart(decl, layout, i)
    IN  (start - 2) ..
        (start + NumSegments(decl[i]) * SegmentStride(decl[i], layout[i]) + 2)

\* C27 (pointer rejection): slot_idx_for_ptr returns None for every pointer
\* below the bucket's base and for every pointer whose computed segment index
\* is >= N or whose computed slot index is >= 32; it never returns a global
\* index >= 32 * N, so the unset_slot that follows does not index outside the
\* bucket's segments.
C27_PointerRejection ==
    \A i \in 1 .. Len(decl) : \A ptr \in PtrsNear(i) :
        LET d == decl[i]
            start == SegmentsStart(decl, layout, i)
            offset == ptr - start
            seg_stride == SegmentStride(d, layout[i])
            g == SlotIdxForPtr(d, layout[i], start, ptr)
        IN  /\ (\/ offset < 0
                \/ offset \div seg_stride >= NumSegments(d)
                \/ (offset % seg_stride) \div SlotStride(d)
                      >= NUM_SLOTS_PER_SEGMENT)
               => g = None
            /\ g # None =>
                  /\ g < NUM_SLOTS_PER_SEGMENT * NumSegments(d)
                  /\ ~UnsetSlot(EnsureInit(d, buckets[i]), g).panic



\* C28 (dealloc ownership and frame): dealloc(p, layout) of a live p clears
\* the header bit of the slot whose address is p, and leaves every other
\* header bit of every bucket as it was, whatever the size and align of
\* layout (which the generated dealloc does not read).
C28_DeallocFrame ==
    (blast.op = "dealloc" /\ blast.wasLive) =>
        \A i \in 1 .. Len(decl) : \A g \in SlotsOf(i) :
            BitSet(i, g) <=> (WasSet(i, g) /\ SlotAddr(i, g) # blast.ptr)



\* the buckets on which the last alloc called claim_first_available_slot: the
\* request passes their test, and every bucket before them that it passes
\* was full
Tried ==
    {i \in Fitting(blast.size, blast.align) :
        \A j \in Fitting(blast.size, blast.align) :
            j < i => (NumSegments(decl[j]) = 0 \/ Full(blast.before, j))}

\* the live pointers handed out by the same bucket before the k-th one
EarlierOfBucket(k) ==
    Cardinality({j \in 1 .. (k - 1) : live[j].bucket = live[k].bucket})

\* C29 (first free slot): claim_first_available_slot returns the address of
\* the slot with the lowest global index whose header bit is clear (slot i
\* of a segment being bit 31 - i), sets that bit and no other, and returns
\* None if and only if all the 32 * N bits are set; from a fresh bucket the
\* slots are handed out in ascending index order.
C29_FirstFreeSlot ==
    /\ blast.op = "alloc" =>
          \A i \in Tried :
              IF NumSegments(decl[i]) = 0 \/ Full(blast.before, i)
              THEN /\ \A g \in SlotsOf(i) : BitSet(i, g) <=> WasSet(i, g)
                   /\ \A g \in SlotsOf(i) : blast.ptr # SlotAddr(i, g)
              ELSE LET c == FirstClear(blast.before, i)
                   IN  /\ blast.ptr = SlotAddr(i, c)
                       /\ \A g \in SlotsOf(i) :
                             BitSet(i, g) <=> (WasSet(i, g) \/ g = c)
    /\ (ops = 0 /\ blast.op = "alloc") =>
          \A k \in 1 .. Len(live) :
              live[k].ptr = SlotAddr(live[k].bucket, EarlierOfBucket(k))

\* a slot in the middle of a segment was freed and the next claim of the
\* bucket returned it, slots after it being free as well
C29_Witness ==
    /\ blast.op = "alloc"
    /\ \E i \in Tried : \E g \in SlotsOf(i) :
          /\ blast.ptr = SlotAddr(i, g)
          /\ g = FirstClear(blast.before, i)
          /\ g >= 1
          /\ \E k \in SlotsOf(i) : k > g /\ ~WasSet(i, k) /\ ~BitSet(i, k)
          /\ \E k \in SlotsOf(i) : k > g /\ WasSet(i, k)



\* the distance from slot g to the slot after it, in a bucket d of layout hf
\* whose segments begin at start
SlotStep(d, hf, start, g) ==
    GetSlot(d, hf, start, g + 1) - GetSlot(d, hf, start, g)

\* the slots of bucket i that have a successor in their segment
SlotsWithSuccessor(i) ==
    {g \in SlotsOf(i) : g % NUM_SLOTS_PER_SEGMENT < NUM_SLOTS_PER_SEGMENT - 1}

\* C30 as stated: in every bucket declared with slot size S and alignment A,
\* the addresses of consecutive slots of a segment differ by exactly S bytes,
\* also when S is not a multiple of A.
C30_StrideEqualsSlotSize ==
    \A i \in 1 .. Len(decl) :
        LET start == SegmentsStart(decl, layout, i)
        IN  \A g \in SlotsWithSuccessor(i) :
                SlotStep(decl[i], layout[i], start, g) = decl[i].slot_size

\* C30 (slot stride), amended: the addresses of consecutive slots of a
\* segment differ by the least multiple of A that is not less than S; that is
\* exactly S bytes when S is a multiple of A, and more otherwise (8 bytes for
\* SlotSize<2>, Align<8>).
C30_SlotStride ==
    \A i \in 1 .. Len(decl) :
        LET start == SegmentsStart(decl, layout, i)
            S == decl[i].slot_size
            A == decl[i].align
        IN  \A g \in SlotsWithSuccessor(i) :
                LET step == SlotStep(decl[i], layout[i], start, g)
                IN  /\ step % A = 0
                    /\ step >= S
                    /\ step - A < S
                    /\ S % A = 0 => step = S

\* two slots in a row were handed out by a bucket whose slot size is not a
\* multiple of its alignment
C30_Witness ==
    /\ blast.op = "alloc"
    /\ \E k \in 1 .. (Len(live) - 1) :
          LET i == live[k].bucket
          IN  /\ live[k + 1].bucket = i
              /\ live[k + 1].ptr = blast.ptr
              /\ decl[i].slot_size % decl[i].align # 0
              /\ \E g \in SlotsWithSuccessor(i) :
                    /\ live[k].ptr = SlotAddr(i, g)
                    /\ live[k + 1].ptr = SlotAddr(i, g + 1)
                    /\ live[k + 1].ptr - live[k].ptr = 8


(***************************************************************************)
(* Properties of the macro expansion (SpecGen).                            *)
(***************************************************************************)
\* C31 (segment count): for a declared slot count K the macro emits exactly
\* ceil(K / 32) segments, so that the capacity of the bucket, 32 slots for
\* each segment, is at least K.
C31_SegmentCount ==
    gen.expanded =>
        \A i \in 1 .. Len(decl) :
            LET K == decl[i].num_slots
            IN  /\ gen.num_segments[i] = (K + 31) \div 32
                /\ NUM_SLOTS_PER_SEGMENT * gen.num_segments[i] >= K



\* the emitted buckets are the declared ones, each once
SameBuckets ==
    /\ Len(decl) = Len(gen.declared)
    /\ \E f \in [1 .. Len(decl) -> 1 .. Len(decl)] :
          /\ \A i, j \in 1 .. Len(decl) : i # j => f[i] # f[j]
          /\ \A i \in 1 .. Len(decl) : decl[i] = gen.declared[f[i]]

\* the scan order of the generated allocator after the expansion: decl is
\* the declaration, or with sort_buckets the declared buckets by ascending
\* slot size and, for equal slot sizes, ascending alignment; an alloc is
\* served by the first bucket in that order that fits and has a clear bit
ScanOrder ==
    gen.expanded =>
        /\ ~gen.sort_buckets => decl = gen.declared
        /\ gen.sort_buckets =>
              /\ SameBuckets
              /\ \A i, j \in 1 .. Len(decl) :
                    i < j =>
                        \/ decl[i].slot_size < decl[j].slot_size
                        \/ /\ decl[i].slot_size = decl[j].slot_size
                           /\ decl[i].align <= decl[j].align
        /\ (blast.op = "alloc" /\ blast.ptr # Null) =>
              \A i \in 1 .. Len(decl) :
                  ServedBy(i) =>
                      /\ i \in Candidates
                      /\ \A j \in 1 .. (i - 1) : j \notin Candidates

C33_SizeClassSeparation ==
    [][(/\ decl = UnsortedBuckets
        /\ ~gen.sort_buckets
        /\ warm.n = 0 /\ ops = 1 /\ ops' = 2
        /\ blast.op = "alloc" /\ blast.size = 2 /\ blast.align = 2
        /\ blast'.op = "alloc" /\ blast'.size = 8 /\ blast'.align = 8)
       => /\ blast.ptr # Null
          /\ blast'.ptr # Null
          /\ \/ blast'.ptr - blast.ptr > 8
             \/ blast.ptr - blast'.ptr > 8
          /\ live'[1].bucket # live'[2].bucket]_vars



\* the header bits that were set when the last call began and are clear now
ClearedBits ==
    {x \in UNION {{<<i, g>> : g \in SlotsOf(i)} : i \in 1 .. Len(decl)} :
        WasSet(x[1], x[2]) /\ ~BitSet(x[1], x[2])}

\* C34 (ensure_init is idempotent): the first ensure_init of a bucket leaves
\* all its header bits clear; a later ensure_init changes nothing: an
\* initialised bucket stays initialised, an alloc clears no header bit, and a
\* dealloc clears no bit but the one unset_slot clears.
C34_EnsureInitIdempotent ==
    blast.op \in {"alloc", "dealloc", "panic"} =>
        /\ \A i \in 1 .. Len(decl) :
              IF blast.before[i].is_init
              THEN buckets[i].is_init
              ELSE buckets[i].is_init =>
                      \A g \in SlotsOf(i) :
                          BitSet(i, g) =>
                              (blast.op = "alloc" /\ blast.ptr = SlotAddr(i, g))
        /\ blast.op = "alloc" => ClearedBits = {}
        /\ Cardinality(ClearedBits) <= 1

\* an alloc ran ensure_init on a bucket that held a live slot, and the slot's
\* bit is still set
C34_Witness ==
    /\ blast.op = "alloc"
    /\ blast.ptr # Null
    /\ \E i \in 1 .. Len(decl) : \E g \in SlotsOf(i) :
          /\ blast.before[i].is_init
          /\ WasSet(i, g)
          /\ BitSet(i, g)
          /\ SlotAddr(i, g) \in LivePtrs
          /\ SlotAddr(i, g) # blast.ptr


\* the sum of the increments of the first n bumps of the log
RECURSIVE BumpedBy(_)
BumpedBy(n) == IF n = 0 THEN 0 ELSE BumpedBy(n - 1) + tsLog[n].inc

\* the address a logged call had loaded from the head in get_head_ptr
LoadedHead(e) == e.ptr + e.size - e.inc

\* C35: ThreadSafeHead coherence.  Whatever the interleaving of the bumps of
\* the two threads, the head holds its initial value (zero) plus the sum of
\* all increments bumped so far: no update is lost.
C35_NoLostUpdate == head = BumpedBy(Len(tsLog))

\* two threads have bumped the head after loading the same value from it
C35_Witness ==
    /\ Len(tsLog) >= 2
    /\ tsLog[1].thread # tsLog[2].thread
    /\ LoadedHead(tsLog[1]) = LoadedHead(tsLog[2])
    /\ head = tsLog[1].inc + tsLog[2].inc


(***************************************************************************)
(* ArenaBumpAllocator<N>: the bump allocator over an inline array          *)
(* [u8; N], with the head kept in an Option that ensure_init fills.  The   *)
(* array is arena.len bytes at arena.start; head is None until the first   *)
(* alloc.                                                                  *)
(***************************************************************************)
InitInline ==
    /\ arena \in [kind : {"inline"}, start : {1, 4}, len : 0 .. MaxArena]
    /\ pages = 0
    /\ head = None
    /\ allocs = <<>>
    /\ last = NoCall
    /\ panicked = FALSE
    /\ th = NoThreads
    /\ tsLog = <<>>
    /\ BucketsIdle

\* ensure_init: the head becomes H::default(), zero, unless it is there
InlineEnsureInit(h) == IF h = None THEN 0 ELSE h

\* get_head_ptr: self.arena.get(head), None from index N on
InlineGetHeadPtr(a, h) == IF h < a.len THEN a.start + h ELSE Null

\* alloc: [ptr, head]; the head is bumped by offset + size with no look at N
InlineAllocResult(a, h0, size, align) ==
    LET h == InlineEnsureInit(h0)
        ptr == InlineGetHeadPtr(a, h)
        offset == AlignOffset(ptr, align)
    IN  IF ptr = Null
        THEN [ptr |-> Null, head |-> h]
        ELSE [ptr |-> ptr + offset, head |-> h + BumpAmount(offset, size)]

InlineAlloc(size, align) ==
    /\ Len(allocs) < MaxAllocs
    /\ LET r == InlineAllocResult(arena, head, size, align)
       IN  /\ head' = r.head
           /\ allocs' = IF r.ptr # Null
                        THEN Append(allocs, [ptr |-> r.ptr, size |-> size,
                                             align |-> align,
                                             head |-> InlineEnsureInit(head)])
                        ELSE allocs
           /\ last' = [op |-> "alloc", size |-> size, align |-> align,
                       ptr |-> r.ptr, headBefore |-> InlineEnsureInit(head),
                       pagesBefore |-> 0, grow |-> NoGrow]
    /\ UNCHANGED <<arena, pages, panicked, th, tsLog, bucketVars>>

\* dealloc has an empty body
InlineDealloc ==
    /\ allocs # <<>>
    /\ last' = [op |-> "dealloc", size |-> 0, align |-> 1, ptr |-> Null,
                headBefore |-> head, pagesBefore |-> 0, grow |-> NoGrow]
    /\ UNCHANGED <<arena, pages, head, allocs, panicked, th, tsLog, bucketVars>>

\* reset: head.set(0) if the head is there
InlineReset ==
    /\ head' = IF head = None THEN None ELSE 0
    /\ allocs' = <<>>
    /\ last' = [op |-> "reset", size |-> 0, align |-> 1, ptr |-> Null,
                headBefore |-> head, pagesBefore |-> 0, grow |-> NoGrow]
    /\ UNCHANGED <<arena, pages, panicked, th, tsLog, bucketVars>>

NextInline ==
    \/ \E rq \in Sizes \X Aligns : InlineAlloc(rq[1], rq[2])
    \/ InlineDealloc
    \/ InlineReset

SpecInline == InitInline /\ [][NextInline]_vars

(***************************************************************************)
(* Properties of the inline-array bump allocator (SpecInline).             *)
(***************************************************************************)
\* C36 (inline-array capacity): ArenaBumpAllocator<N>::alloc returns null
\* whenever head + padding + size > N, and the range [p, p + size) of an
\* address it returns never extends beyond the N bytes of the array.
C36_InlineCapacity ==
    (arena.kind = "inline" /\ last.op = "alloc") =>
        /\ last.headBefore + LastPadding + last.size > arena.len
              => last.ptr = Null
        /\ last.ptr # Null
              => last.ptr + last.size <= arena.start + arena.len


\* C37 (initialisation assertion): in every sequence of alloc and dealloc
\* calls made from new() on, the assert!(self.is_init) of get_segments and
\* get_segments_mut never fails, and no call takes is_init of a bucket from
\* true back to false.
C37_InitAssertion ==
    [][/\ blast'.op # "assert"
       /\ \A i \in 1 .. Len(decl) :
             buckets[i].is_init => buckets'[i].is_init]_vars

\* a dealloc went through unset_slot and cleared a bit, all buckets being
\* initialised
C37_Witness ==
    /\ blast.op = "dealloc"
    /\ ClearedBits # {}
    /\ \A i \in 1 .. Len(decl) : buckets[i].is_init


(***************************************************************************)
(* Properties of the bump allocator over an exactly growing arena          *)
(* (SpecExact).                                                            *)
(***************************************************************************)
\* C38 (sufficient growth request): over an arena whose ensure_min_size makes
\* size() at least min_size, possibly exactly min_size, every range
\* [p, p + size) that alloc returns lies inside [start, start + size()), and
\* the min_size alloc asks for is at least head + padding + size.
C38_SufficientGrowth ==
    (arena.kind = "exact" /\ last.op = "alloc") =>
        /\ last.ptr # Null =>
              /\ arena.start <= last.ptr
              /\ last.ptr + last.size <= arena.start + ArenaSize(arena, pages)
        /\ last.grow.called =>
              last.grow.min >= last.headBefore + LastPadding + last.size


\* C39 (alloc/dealloc round trip): in any reachable state, a successful
\* alloc(size, align) returning p immediately followed by dealloc(p) leaves
\* every header bit of every bucket as it was before the alloc (a bucket not
\* yet initialised counting as all clear), so that the same alloc, repeated,
\* returns p again.
C39_AllocDeallocRoundTrip ==
    [][(/\ blast.op = "alloc"
        /\ blast.ptr # Null
        /\ blast'.op \in {"dealloc", "panic"}
        /\ blast'.ptr = blast.ptr)
          => /\ blast'.op = "dealloc"
             /\ \A i \in 1 .. Len(decl) : \A g \in SlotsOf(i) :
                   BitSet(i, g)' <=> WasSet(i, g)
             /\ AllocFrom(decl, layout, buckets', 1,
                          blast.size, blast.align).ptr = blast.ptr]_vars


\* C40 (concurrent capacity): with a ThreadSafeHead over a slice, in every
\* interleaving of the alloc calls of the threads the head never exceeds the
\* arena's size and every range returned lies inside the arena.
C40_ConcurrentCapacity ==
    /\ head <= ArenaSize(arena, pages)
    /\ \A k \in 1 .. Len(tsLog) :
          /\ arena.start <= tsLog[k].ptr
          /\ tsLog[k].ptr + tsLog[k].size <= arena.start + ArenaSize(arena, pages)

=============================================================================
